---- MODULE Spec2Model ----
(***************************************************************************)
(* Model of the per-user retrieval-augmented generation pipeline:          *)
(* rag/ingestDocs.py (ingestion), rag/tools/vectorStore.py (the            *)
(* ChromaRetriever wrapper around one collection per user) and             *)
(* rag/agents/agent.py (style profile and generation).                     *)
(*                                                                         *)
(* The vector store is a function from collection name to the set of       *)
(* records of that collection.  Every call of the store made by the code   *)
(* (get_or_create_collection, get, delete, add, count, query) is an        *)
(* operator; a handler is the composition of the calls it makes.           *)
(***************************************************************************)
EXTENDS Integers, Sequences, FiniteSets, TLC

\* ---------------------------------------------------------------- bounds
\* Largest number of chunks the chunker yields for one modelled file.
MaxChunks == 2

\* Largest number of tokens (runs of word characters and separator
\* characters) in a text handed to the chunker.
MaxTokens == 3

\* ------------------------------------------------------ program constants
maxResults == 6
RAG_TOP_K == 6
AspectLimit == 2
SampleCap == 8
CHUNK_SIZE == 400
CHUNK_OVERLAP == 80

SUPPORTED_EXTENSIONS == {".pdf", ".txt", ".md", ".docx"}

\* ----------------------------------------------------------------- inputs
Users == {"u1", "u2"}

\* The chunk texts a file is made of (the output of chunkText on its text).
Texts == {"x", "yy"}

OtherText(t) == IF t = "x" THEN "yy" ELSE "x"

\* A manuscript alternates the two texts; a file holds the first n chunks of one.
Manuscript(t, n) == [i \in 1..n |-> IF i % 2 = 1 THEN t ELSE OtherText(t)]

Contents == {Manuscript(t, n) : t \in Texts, n \in 0..MaxChunks}

\* Uploaded paths: stem and suffix, as pathlib splits them.
Paths == {<<"a", ".txt">>, <<"a", ".md">>, <<"b", ".txt">>}

Files == [path : Paths, chunks : Contents]

PathName(p) == p[1] \o p[2]
PathStem(p) == p[1]
PathSuffix(p) == p[2]

FileNames == {PathName(p) : p \in Paths}

\* The file names in lexicographic order (the order sorted() gives them).
LexOrder == <<"a.md", "a.txt", "b.txt">>

Queries == {"", "q"}

NoLimit == -1
Limits == {NoLimit} \cup (0..(MaxChunks + 1))

Abs(i) == IF i < 0 THEN -i ELSE i

\* The embedding distance of a query text to a stored document.  Queries
\* differ in the document they are nearest to: of the four aspect queries the
\* second is nearest to "x", the others to "yy".
Distance(query, document) == Abs((Len(query) % 3) - Len(document))

\* ------------------------------------------------------------ the store
\* A collection name that leaves the user id out.
collectionNameShared(userId) == "user_" \o "_writings"

collectionName(userId) == "user_" \o userId \o "_writings"

GetOrCreateCollection(st, c) == IF c \in DOMAIN st THEN st ELSE st @@ (c :> {})

\* A get that ignores the where filter and returns every id.
GetIdsUnfiltered(coll, name) == {r.id : r \in coll}

\* collection.get(where={"source": name})["ids"]
GetIdsWhereSource(coll, name) == {r.id : r \in {q \in coll : q.metadata.source = name}}

\* A delete that keeps the named ids and drops the others.
DeleteIdsInverted(coll, ids) == {r \in coll : r.id \in ids}

\* collection.delete(ids=...)
DeleteIds(coll, ids) == {r \in coll : r.id \notin ids}

\* An add that replaces the stored record of an id it is given again.
AddRecordsUpsert(coll, recs) == {q \in coll : q.id \notin {r.id : r \in recs}} \cup recs

\* collection.add(...): a record whose id is already in the collection is
\* skipped (the store logs it and keeps the stored record).
AddRecords(coll, recs) == coll \cup {r \in recs : r.id \notin {q.id : q \in coll}}

CollectionCount(coll) == Cardinality(coll)

\* collection.query(query_texts=[query], n_results=n): the n nearest records,
\* nearest first.
RECURSIVE QueryRanked(_, _, _)
QueryRanked(coll, query, n) ==
    IF n <= 0 \/ coll = {} THEN <<>>
    ELSE LET nearest == CHOOSE r \in coll :
                 \A s \in coll : Distance(query, r.document) <= Distance(query, s.document)
         IN  <<nearest>> \o QueryRanked(coll \ {nearest}, query, n - 1)

\* -------------------------------------------------------------- chunkText
\* A text is a sequence of tokens: a run of n characters that are neither
\* separators nor whitespace, or one separator character.
Word(n) == [kind |-> "w", n |-> n]
Sep(c) == [kind |-> c, n |-> 1]

\* separators=["\n\n", "\n", ".", " "], each as its characters
Separators == <<<<"\n", "\n">>, <<"\n">>, <<".">>, <<" ">>>>

WordLengths == {1, CHUNK_OVERLAP, CHUNK_SIZE - 1, CHUNK_SIZE + 1}

Tokens == {Word(n) : n \in WordLengths} \cup {Sep("\n"), Sep("."), Sep(" ")}

SeqsUpTo(S, n) == UNION {[1..k -> S] : k \in 0..n}

ChunkTexts == SeqsUpTo(Tokens, MaxTokens)

\* len(text)
RECURSIVE TextLen(_)
TextLen(text) == IF text = <<>> THEN 0 ELSE Head(text).n + TextLen(Tail(text))

\* The separator stands in text at position i.
MatchAt(text, i, sep) ==
    /\ i + Len(sep) - 1 <= Len(text)
    /\ \A k \in 1..Len(sep) : text[i + k - 1].kind = sep[k]

\* re.search(separator, text)
Search(text, sep) == \E i \in 1..Len(text) : MatchAt(text, i, sep)

\* re.split("(separator)", text) with every separator put in front of the
\* part that follows it; cur is the part being read.
RECURSIVE SplitFrom(_, _, _, _)
SplitFrom(text, sep, i, cur) ==
    IF i > Len(text) THEN <<cur>>
    ELSE IF MatchAt(text, i, sep)
         THEN <<cur>> \o SplitFrom(text, sep, i + Len(sep), SubSeq(text, i, i + Len(sep) - 1))
         ELSE SplitFrom(text, sep, i + 1, Append(cur, text[i]))

\* _split_text_with_regex(text, separator, keep_separator=True)
splitTextWithRegex(text, sep) == SelectSeq(SplitFrom(text, sep, 1, <<>>), LAMBDA part : part # <<>>)

RECURSIVE Concat(_)
Concat(parts) == IF parts = <<>> THEN <<>> ELSE Head(parts) \o Concat(Tail(parts))

WhitespaceKinds == {" ", "\n"}

RECURSIVE LeftStrip(_)
LeftStrip(text) ==
    IF text # <<>> /\ Head(text).kind \in WhitespaceKinds THEN LeftStrip(Tail(text)) ELSE text

RECURSIVE RightStrip(_)
RightStrip(text) ==
    IF text # <<>> /\ text[Len(text)].kind \in WhitespaceKinds
    THEN RightStrip(SubSeq(text, 1, Len(text) - 1)) ELSE text

\* _join_docs(docs, ""): the parts joined and stripped; <<>> stands for None
joinDocs(docs) == RightStrip(LeftStrip(Concat(docs)))

\* The while loop of _merge_splits: parts are popped off the front of the
\* current document until the overlap and the next part fit.
RECURSIVE PopFront(_, _, _)
PopFront(current, total, len) ==
    IF total > CHUNK_OVERLAP \/ (total + len > CHUNK_SIZE /\ total > 0)
    THEN PopFront(Tail(current), total - TextLen(Head(current)), len)
    ELSE [current |-> current, total |-> total]

\* The for loop of _merge_splits(splits, "")
RECURSIVE MergeFrom(_, _, _, _)
MergeFrom(splits, i, current, total) ==
    IF i > Len(splits)
    THEN IF joinDocs(current) # <<>> THEN <<joinDocs(current)>> ELSE <<>>
    ELSE LET len == TextLen(splits[i])
             full == total + len > CHUNK_SIZE /\ current # <<>>
             doc == IF full /\ joinDocs(current) # <<>> THEN <<joinDocs(current)>> ELSE <<>>
             kept == IF full THEN PopFront(current, total, len)
                     ELSE [current |-> current, total |-> total]
         IN  doc \o MergeFrom(splits, i + 1, Append(kept.current, splits[i]), kept.total + len)

mergeSplits(splits) == MergeFrom(splits, 1, <<>>, 0)

Min(S) == CHOOSE i \in S : \A j \in S : i <= j

\* RecursiveCharacterTextSplitter._split_text(text, separators): the first
\* separator found in the text splits it (the last one when none is found);
\* parts shorter than CHUNK_SIZE are merged, a longer part is split by the
\* separators that remain, or kept whole when none remains.
RECURSIVE splitText(_, _)
RECURSIVE SplitParts(_, _, _, _)
SplitParts(splits, newSeparators, i, good) ==
    LET merged == IF good # <<>> THEN mergeSplits(good) ELSE <<>>
    IN  IF i > Len(splits) THEN merged
        ELSE IF TextLen(splits[i]) < CHUNK_SIZE
             THEN SplitParts(splits, newSeparators, i + 1, Append(good, splits[i]))
             ELSE merged
                  \o (IF newSeparators = <<>> THEN <<splits[i]>>
                      ELSE splitText(splits[i], newSeparators))
                  \o SplitParts(splits, newSeparators, i + 1, <<>>)

splitText(text, separators) ==
    LET found == {i \in 1..Len(separators) : Search(text, separators[i])}
        separator == IF found = {} THEN separators[Len(separators)] ELSE separators[Min(found)]
        newSeparators == IF found = {} THEN <<>>
                         ELSE SubSeq(separators, Min(found) + 1, Len(separators))
    IN  SplitParts(splitTextWithRegex(text, separator), newSeparators, 1, <<>>)

chunkText(text) == splitText(text, Separators)

\* ------------------------------------------------------------ ingestFile
chunkId(p, i) == PathStem(p) \o "-c" \o ToString(i)

ingestFile(f) ==
    {[id |-> chunkId(f.path, i - 1),
      document |-> f.chunks[i],
      metadata |-> [source |-> PathName(f.path),
                    fileType |-> PathSuffix(f.path),
                    chunkIndex |-> i - 1]] : i \in 1..Len(f.chunks)}

\* store: collection name -> records of the collection (created lazily)
\* last:  the call that returned last, with its arguments and its outcome
\* ing:   the ingestForUser calls in progress, one per worker, by store call
\* latest: per user and file name, the chunks of the most recent ingest that
\*        succeeded (<<>> when there is none, or the source was deleted since)
VARIABLES store, last, ing, latest

vars == <<store, last, ing, latest>>

Workers == {"w1", "w2"}

NoCall == [op |-> "none", user |-> "", raised |-> "none"]
Idle == [pc |-> "idle"]

Init ==
    /\ store = <<>>
    /\ last = NoCall
    /\ ing = [w \in Workers |-> Idle]
    /\ latest = [u \in Users |-> [name \in FileNames |-> <<>>]]

\* The records of a user's namespace (none while the collection does not exist).
NamespaceOf(st, u) == IF collectionName(u) \in DOMAIN st THEN st[collectionName(u)] ELSE {}

Namespace(u) == NamespaceOf(store, u)

\* The records of a collection that carry a source name.
OfSource(coll, name) == {r \in coll : r.metadata.source = name}

IdsOf(coll) == {r.id : r \in coll}

\* A call of chunkText on one text.
ChunkText(text) ==
    /\ UNCHANGED <<store, ing, latest>>
    /\ last' = [op |-> "chunkText", user |-> "", raised |-> "none",
                text |-> text, chunks |-> chunkText(text)]

\* ---------------------------------------------------------- ingestForUser
\* Where the store can fail an ingest: nowhere, or at the add of the new
\* records (embedding or persisting them), after the delete of the old ones.
FailPoints == {"none", "add"}

\* An ingest that opens the collection and deletes the file's old chunks
\* before it validates the file.
ingestForUserDeletingFirst(u, f, fail) ==
    LET c == collectionName(u)
        name == PathName(f.path)
        \* again: the call before this one was a successful ingest of the same file
        call == [op |-> "ingest", user |-> u, file |-> f,
                 again |-> (/\ last.op = "ingest" /\ last.raised = "none"
                            /\ last.user = u /\ last.file = f)]
    IN
    /\ UNCHANGED ing
    /\ IF PathSuffix(f.path) \notin SUPPORTED_EXTENSIONS \/ ingestFile(f) = {}
       THEN /\ fail = "none"
            /\ store' = LET st1 == GetOrCreateCollection(store, c)
                        IN  [st1 EXCEPT ![c] = DeleteIds(@, GetIdsWhereSource(@, name))]
            /\ last' = call @@ [raised |-> "ValueError"]
            /\ UNCHANGED latest
       ELSE LET st1 == GetOrCreateCollection(store, c)
                existing == GetIdsWhereSource(st1[c], name)
                deleted == IF existing # {} THEN DeleteIds(st1[c], existing) ELSE st1[c]
                added == AddRecords(deleted, ingestFile(f))
            IN  CASE fail = "add" ->
                       /\ store' = [st1 EXCEPT ![c] = deleted]
                       /\ last' = call @@ [raised |-> "StoreError"]
                       /\ UNCHANGED latest
                  [] OTHER ->
                       /\ store' = [st1 EXCEPT ![c] = added]
                       /\ latest' = [latest EXCEPT ![u][name] = f.chunks]
                       /\ last' = call @@ [raised |-> "none",
                                           chunks |-> Len(f.chunks),
                                           totalDocsInCollection |-> CollectionCount(added)]

ingestForUser(u, f, fail) ==
    LET c == collectionName(u)
        name == PathName(f.path)
        \* again: the call before this one was a successful ingest of the same file
        call == [op |-> "ingest", user |-> u, file |-> f,
                 again |-> (/\ last.op = "ingest" /\ last.raised = "none"
                            /\ last.user = u /\ last.file = f)]
    IN
    /\ UNCHANGED ing
    /\ IF PathSuffix(f.path) \notin SUPPORTED_EXTENSIONS \/ ingestFile(f) = {}
       THEN /\ fail = "none"
            /\ store' = store
            /\ last' = call @@ [raised |-> "ValueError"]
            /\ UNCHANGED latest
       ELSE LET st1 == GetOrCreateCollection(store, c)
                existing == GetIdsWhereSource(st1[c], name)
                deleted == IF existing # {} THEN DeleteIds(st1[c], existing) ELSE st1[c]
                added == AddRecords(deleted, ingestFile(f))
            IN  CASE fail = "add" ->
                       /\ store' = [st1 EXCEPT ![c] = deleted]
                       /\ last' = call @@ [raised |-> "StoreError"]
                       /\ UNCHANGED latest
                  [] OTHER ->
                       /\ store' = [st1 EXCEPT ![c] = added]
                       /\ latest' = [latest EXCEPT ![u][name] = f.chunks]
                       /\ last' = call @@ [raised |-> "none",
                                           chunks |-> Len(f.chunks),
                                           totalDocsInCollection |-> CollectionCount(added)]

\* -------------------------------------------------------- ChromaRetriever
\* Every method runs on a retriever whose constructor got or created the
\* user's collection.
retrieve(coll, query, limit) ==
    LET n == IF limit = NoLimit \/ limit = 0 THEN maxResults ELSE limit
        available == CollectionCount(coll)
    IN  IF available = 0 THEN <<>>
        ELSE LET ranked == QueryRanked(coll, query, IF n < available THEN n ELSE available)
             IN  [i \in 1..Len(ranked) |->
                     [document |-> ranked[i].document,
                      metadata |-> ranked[i].metadata,
                      distance |-> Distance(query, ranked[i].document)]]

\* The calls a request makes outside the process, in order: count and query
\* on the store, and posts to the generative model.
CountCall == [call |-> "count"]
QueryCall(query, n) == [call |-> "query", text |-> query, n |-> n]

\* A retrieve that queries the store also when the collection is empty.
retrieveCallsAlwaysQuery(coll, query, limit) ==
    LET n == IF limit = NoLimit \/ limit = 0 THEN maxResults ELSE limit
    IN  IF query = "" THEN <<>> ELSE <<CountCall, QueryCall(query, n)>>

\* A retrieve that counts the collection before it looks at the query.
retrieveCallsCountFirst(coll, query, limit) ==
    LET n == IF limit = NoLimit \/ limit = 0 THEN maxResults ELSE limit
        available == CollectionCount(coll)
    IN  IF query = "" \/ available = 0 THEN <<CountCall>>
        ELSE <<CountCall, QueryCall(query, IF n < available THEN n ELSE available)>>

\* The store calls of one retriever.retrieve(query, limit).
retrieveCalls(coll, query, limit) ==
    LET n == IF limit = NoLimit \/ limit = 0 THEN maxResults ELSE limit
        available == CollectionCount(coll)
    IN  IF query = "" THEN <<>>
        ELSE IF available = 0 THEN <<CountCall>>
        ELSE <<CountCall, QueryCall(query, IF n < available THEN n ELSE available)>>

listSources(coll) ==
    LET sources == {r.metadata.source : r \in coll}
    IN  SelectSeq(LexOrder, LAMBDA name : name \in sources)

Retrieve(u, query, limit) ==
    LET st1 == GetOrCreateCollection(store, collectionName(u))
        call == [op |-> "retrieve", user |-> u, query |-> query, limit |-> limit,
                 calls |-> retrieveCalls(st1[collectionName(u)], query, limit)]
    IN  /\ UNCHANGED <<ing, latest>>
        /\ store' = st1
        /\ last' = IF query = ""
                   THEN call @@ [raised |-> "ValueError"]
                   ELSE call @@ [raised |-> "none",
                                 result |-> retrieve(st1[collectionName(u)], query, limit)]

ListSources(u) ==
    LET st1 == GetOrCreateCollection(store, collectionName(u))
    IN  /\ UNCHANGED <<ing, latest>>
        /\ store' = st1
        /\ last' = [op |-> "listSources", user |-> u, raised |-> "none",
                    result |-> listSources(st1[collectionName(u)])]

DeleteSource(u, filename) ==
    LET c == collectionName(u)
        st1 == GetOrCreateCollection(store, c)
        existing == GetIdsWhereSource(st1[c], filename)
    IN  /\ UNCHANGED ing
        /\ store' = [st1 EXCEPT ![c] = IF existing # {} THEN DeleteIds(st1[c], existing)
                                        ELSE st1[c]]
        /\ latest' = [latest EXCEPT ![u][filename] = <<>>]
        /\ last' = [op |-> "deleteSource", user |-> u, filename |-> filename,
                    raised |-> "none", result |-> Cardinality(existing)]

Count(u) ==
    LET st1 == GetOrCreateCollection(store, collectionName(u))
    IN  /\ UNCHANGED <<ing, latest>>
        /\ store' = st1
        /\ last' = [op |-> "count", user |-> u, raised |-> "none",
                    result |-> CollectionCount(st1[collectionName(u)])]

\* ------------------------------------------------------------------ agent
Documents(results) == [i \in 1..Len(results) |-> results[i].document]

\* Texts that come back from the model are sequences of tokens; " " and
\* "\n" are the whitespace tokens.
Whitespace == {" ", "\n"}

\* A strip that leaves the text as it is.
StripNothing(text) == text

RECURSIVE Strip(_)
Strip(text) ==
    IF text = <<>> THEN <<>>
    ELSE IF Head(text) \in Whitespace THEN Strip(Tail(text))
    ELSE IF text[Len(text)] \in Whitespace THEN Strip(SubSeq(text, 1, Len(text) - 1))
    ELSE text

\* What a post to the model comes to: it fails (no connection, or an error
\* status), or a reply text arrives.
Failure == [ok |-> FALSE]
ModelReplies == {Failure, [ok |-> TRUE, text |-> <<" ", "v", "\n">>]}

Aspects == <<"descriptive prose and scene setting",
             "dialogue and character voice",
             "sentence rhythm and pacing",
             "emotional tone and atmosphere">>

NoSamplesProfile == <<"No writing samples available yet.">>

\* The samples of the aspects taken in reverse order.
RECURSIVE aspectSamplesReversed(_, _)
aspectSamplesReversed(coll, i) ==
    IF i > Len(Aspects) THEN <<>>
    ELSE aspectSamplesReversed(coll, i + 1) \o Documents(retrieve(coll, Aspects[i], AspectLimit))

RECURSIVE aspectSamples(_, _)
aspectSamples(coll, i) ==
    IF i > Len(Aspects) THEN <<>>
    ELSE Documents(retrieve(coll, Aspects[i], AspectLimit)) \o aspectSamples(coll, i + 1)

RECURSIVE aspectCalls(_, _)
aspectCalls(coll, i) ==
    IF i > Len(Aspects) THEN <<>>
    ELSE retrieveCalls(coll, Aspects[i], AspectLimit) \o aspectCalls(coll, i + 1)

\* A profile builder that posts to the model a second time when the first
\* post fails.
buildStyleProfileRetrying(coll, reply) ==
    LET samples == aspectSamples(coll, 1)
        combined == SubSeq(samples, 1, IF Len(samples) < SampleCap THEN Len(samples) ELSE SampleCap)
        post == [call |-> "model", purpose |-> "profile", samples |-> combined]
    IN  IF samples = <<>>
        THEN [raised |-> "none", profile |-> NoSamplesProfile, calls |-> aspectCalls(coll, 1)]
        ELSE IF ~reply.ok
        THEN [raised |-> "UpstreamError", calls |-> aspectCalls(coll, 1) \o <<post, post>>]
        ELSE [raised |-> "none", profile |-> Strip(reply.text),
              calls |-> Append(aspectCalls(coll, 1), post)]

buildStyleProfile(coll, reply) ==
    LET samples == aspectSamples(coll, 1)
        combined == SubSeq(samples, 1, IF Len(samples) < SampleCap THEN Len(samples) ELSE SampleCap)
        post == [call |-> "model", purpose |-> "profile", samples |-> combined]
    IN  IF samples = <<>>
        THEN [raised |-> "none", profile |-> NoSamplesProfile, calls |-> aspectCalls(coll, 1)]
        ELSE IF ~reply.ok
        THEN [raised |-> "UpstreamError", calls |-> Append(aspectCalls(coll, 1), post)]
        ELSE [raised |-> "none", profile |-> Strip(reply.text),
              calls |-> Append(aspectCalls(coll, 1), post)]

\* A call of buildStyleProfile with the retriever of user u.
BuildStyleProfile(u, reply) ==
    LET st1 == GetOrCreateCollection(store, collectionName(u))
    IN  /\ UNCHANGED <<ing, latest>>
        /\ store' = st1
        /\ last' = [op |-> "buildStyleProfile", user |-> u, reply |-> reply]
                    @@ buildStyleProfile(st1[collectionName(u)], reply)

Null == <<"None">>

NoSamplesError == "No writing samples uploaded yet. Please upload some of your work first."

\* retriever.count() == 0
\* A test for an empty namespace that never holds.
noSamplesNever(available) == available < 0

noSamples(available) == available = 0

\* The set of the source names of the retrieved chunks.
sourcesOf(results) == {results[i].metadata.source : i \in 1..Len(results)}

\* The outcome of generateInUserVoice on the user's collection: the exception
\* it raises or the dict it returns, and the outside calls it made.
generateInUserVoice(coll, prompt, styleHint, profileReply, finalReply) ==
    IF noSamples(CollectionCount(coll))
    THEN [raised |-> "none",
          result |-> [error |-> NoSamplesError, generatedText |-> Null,
                      styleProfile |-> Null, sourcesUsed |-> {}],
          calls |-> <<CountCall>>]
    ELSE IF prompt = ""
    \* retriever.retrieve raises on the empty query, before it calls the store
    THEN [raised |-> "ValueError", calls |-> <<CountCall>> \o retrieveCalls(coll, prompt, RAG_TOP_K)]
    ELSE
    LET relevantChunks == retrieve(coll, prompt, RAG_TOP_K)
        calls1 == <<CountCall>> \o retrieveCalls(coll, prompt, RAG_TOP_K)
        sources == sourcesOf(relevantChunks)
        built == buildStyleProfile(coll, profileReply)
        calls2 == calls1 \o built.calls
    IN  IF built.raised # "none"
        THEN [raised |-> built.raised, calls |-> calls2]
        ELSE IF styleHint # ""
        \* the name style_hint is not defined
        THEN [raised |-> "NameError", calls |-> calls2]
        ELSE
        LET userMessage == "Task: " \o prompt
            post == [call |-> "model", purpose |-> "generate", prompt |-> userMessage,
                     profile |-> built.profile, context |-> Documents(relevantChunks)]
            calls3 == Append(calls2, post)
        IN  IF ~finalReply.ok
            THEN [raised |-> "UpstreamError", calls |-> calls3]
            \* the response has no attribute raiseForStatus
            ELSE [raised |-> "AttributeError", calls |-> calls3]

Generate(u, prompt, styleHint, profileReply, finalReply) ==
    LET st1 == GetOrCreateCollection(store, collectionName(u))
        outcome == generateInUserVoice(st1[collectionName(u)], prompt, styleHint,
                                       profileReply, finalReply)
    IN  /\ UNCHANGED <<ing, latest>>
        /\ store' = st1
        /\ last' = [op |-> "generate", user |-> u, prompt |-> prompt,
                    styleHint |-> styleHint, profileReply |-> profileReply,
                    finalReply |-> finalReply] @@ outcome

\* ------------------------------------------- one namespace, calls in series
Ingest == \E f \in Files, fail \in FailPoints : ingestForUser("u1", f, fail)
Query == \E query \in Queries, limit \in Limits : Retrieve("u1", query, limit)
Sources == ListSources("u1")
Delete == \E name \in FileNames : DeleteSource("u1", name)
Total == Count("u1")

Next == Ingest \/ Query \/ Sources \/ Delete \/ Total

Spec == Init /\ [][Next]_vars

\* ------------------------ one namespace, in series, the store never failing
RetrieverIngest == \E f \in Files : ingestForUser("u1", f, "none")

NextRetriever == RetrieverIngest \/ Query \/ Sources \/ Delete \/ Total

SpecRetriever == Init /\ [][NextRetriever]_vars

\* ------------------------------------------------ two namespaces, in series
\* Each user uploads files made of chunks of a text of their own, under the
\* same file names.
TextOf(u) == IF u = "u1" THEN "x" ELSE "yy"

IsoPaths == {<<"a", ".txt">>, <<"b", ".txt">>}

IsoFiles(u) == [path : IsoPaths, chunks : {[i \in 1..n |-> TextOf(u)] : n \in 0..MaxChunks}]

IsoIngest == \E u \in Users : \E f \in IsoFiles(u), fail \in FailPoints : ingestForUser(u, f, fail)
IsoQuery == \E u \in Users, limit \in {NoLimit, 1} : Retrieve(u, "q", limit)
IsoSources == \E u \in Users : ListSources(u)
IsoDelete == \E u \in Users, p \in IsoPaths : DeleteSource(u, PathName(p))
IsoTotal == \E u \in Users : Count(u)

NextIso == IsoIngest \/ IsoQuery \/ IsoSources \/ IsoDelete \/ IsoTotal

SpecIso == Init /\ [][NextIso]_vars

\* ------------------------------------- ingestForUser, one store call a step
\* A worker runs one ingestForUser call; the calls of the store it makes are
\* separate steps, between which other requests run.  old is the chunks the
\* file had in the namespace when the call began.
IngestBegin(w, u, f) ==
    LET c == collectionName(u)
        call == [op |-> "ingest", user |-> u, file |-> f, again |-> FALSE]
    IN  /\ ing[w].pc = "idle"
        /\ UNCHANGED latest
        /\ IF PathSuffix(f.path) \notin SUPPORTED_EXTENSIONS \/ ingestFile(f) = {}
           THEN /\ last' = call @@ [raised |-> "ValueError"]
                /\ UNCHANGED <<store, ing>>
           ELSE /\ store' = GetOrCreateCollection(store, c)
                /\ ing' = [ing EXCEPT ![w] = [pc |-> "get", user |-> u, file |-> f,
                                              existing |-> {},
                                              old |-> OfSource(Namespace(u), PathName(f.path))]]
                /\ UNCHANGED last

IngestGet(w) ==
    /\ ing[w].pc = "get"
    /\ LET existing == GetIdsWhereSource(store[collectionName(ing[w].user)],
                                         PathName(ing[w].file.path))
       IN  ing' = [ing EXCEPT ![w].existing = existing,
                              ![w].pc = IF existing # {} THEN "delete" ELSE "add"]
    /\ UNCHANGED <<store, last, latest>>

IngestDelete(w) ==
    /\ ing[w].pc = "delete"
    /\ store' = [store EXCEPT ![collectionName(ing[w].user)] = DeleteIds(@, ing[w].existing)]
    /\ ing' = [ing EXCEPT ![w].pc = "add"]
    /\ UNCHANGED <<last, latest>>

IngestAdd(w) ==
    /\ ing[w].pc = "add"
    /\ store' = [store EXCEPT ![collectionName(ing[w].user)] =
                                  AddRecords(@, ingestFile(ing[w].file))]
    /\ ing' = [ing EXCEPT ![w].pc = "count"]
    /\ UNCHANGED <<last, latest>>

IngestAddFails(w) ==
    /\ ing[w].pc = "add"
    /\ last' = [op |-> "ingest", user |-> ing[w].user, file |-> ing[w].file,
                again |-> FALSE, raised |-> "StoreError"]
    /\ ing' = [ing EXCEPT ![w] = Idle]
    /\ UNCHANGED <<store, latest>>

IngestReturn(w) ==
    /\ ing[w].pc = "count"
    /\ last' = [op |-> "ingest", user |-> ing[w].user, file |-> ing[w].file,
                again |-> FALSE, raised |-> "none",
                chunks |-> Len(ing[w].file.chunks),
                totalDocsInCollection |->
                    CollectionCount(store[collectionName(ing[w].user)])]
    /\ latest' = [latest EXCEPT ![ing[w].user][PathName(ing[w].file.path)] = ing[w].file.chunks]
    /\ ing' = [ing EXCEPT ![w] = Idle]
    /\ UNCHANGED store

ConcPaths == {<<"a", ".txt">>}

\* A long version and a short version of the file, and an empty one.
ConcFiles == [path : ConcPaths,
              chunks : {Manuscript("x", MaxChunks), Manuscript("yy", 1), <<>>}]

ConcBegin == \E w \in Workers, f \in ConcFiles : IngestBegin(w, "u1", f)
ConcGet == \E w \in Workers : IngestGet(w)
ConcDelete == \E w \in Workers : IngestDelete(w)
ConcAdd == \E w \in Workers : IngestAdd(w)
ConcAddFails == \E w \in Workers : IngestAddFails(w)
ConcReturn == \E w \in Workers : IngestReturn(w)
ConcQuery == Retrieve("u1", "q", NoLimit)
ConcSources == ListSources("u1")
ConcTotal == Count("u1")

NextConc ==
    \/ ConcBegin \/ ConcGet \/ ConcDelete \/ ConcAdd \/ ConcAddFails \/ ConcReturn
    \/ ConcQuery \/ ConcSources \/ ConcTotal

SpecConc == Init /\ [][NextConc]_vars

\* ------------------------------------------- uploads and generate requests
Prompts == {"", "write an opening line"}
StyleHints == {"", "more formal"}

GenPaths == {<<"a", ".txt">>, <<"b", ".txt">>}
GenFiles == [path : GenPaths, chunks : Contents]

GenIngest == \E f \in GenFiles : ingestForUser("u1", f, "none")
GenDelete == \E p \in GenPaths : DeleteSource("u1", PathName(p))
GenRequest ==
    \E prompt \in Prompts, styleHint \in StyleHints :
        \E profileReply \in ModelReplies, finalReply \in ModelReplies :
            Generate("u1", prompt, styleHint, profileReply, finalReply)

GenProfile == \E reply \in ModelReplies : BuildStyleProfile("u1", reply)

NextGen == GenIngest \/ GenDelete \/ GenRequest \/ GenProfile

SpecGen == Init /\ [][NextGen]_vars

\* Only ingests, none of which the store fails.
NextIngest == \E f \in Files : ingestForUser("u1", f, "none")

SpecIngest == Init /\ [][NextIngest]_vars

\* ------------------------------- uploads, of unsupported and empty files too
UploadPaths == {<<"a", ".txt">>, <<"b", ".txt">>, <<"a", ".exe">>}
UploadFiles == [path : UploadPaths, chunks : Contents]

UploadIngest == \E f \in UploadFiles : ingestForUser("u1", f, "none")
UploadDelete == \E p \in UploadPaths \cap Paths : DeleteSource("u1", PathName(p))

NextUpload == UploadIngest \/ UploadDelete

SpecUpload == Init /\ [][NextUpload]_vars

\* ------------------------------------------------------ the chunker alone
\* Each text is chunked once, from the initial state.
NextChunk == last = NoCall /\ \E text \in ChunkTexts : ChunkText(text)

SpecChunk == Init /\ [][NextChunk]_vars

\* C1: ingesting a file that yields at least one chunk and then at once
\* ingesting the identical file again for the same user leaves the namespace
\* with the same chunk count and the same set of chunk ids as after the
\* first ingest.
C1_ReingestIdempotent ==
    [][(/\ last.op = "ingest" /\ last.raised = "none"
        /\ last'.op = "ingest" /\ last'.raised = "none"
        /\ last'.user = last.user /\ last'.file = last.file)
       => (/\ IdsOf(NamespaceOf(store', last.user)) = IdsOf(Namespace(last.user))
           /\ CollectionCount(NamespaceOf(store', last.user)) = CollectionCount(Namespace(last.user))
           /\ last'.chunks = last.chunks
           /\ last'.totalDocsInCollection = last.totalDocsInCollection)]_vars

\* A file ingested twice in a row while another source holds chunk ids of
\* the same stem and a third source is present.
C1_Witness ==
    /\ last.op = "ingest" /\ last.raised = "none" /\ last.again
    /\ last.totalDocsInCollection > last.chunks
    /\ latest[last.user][PathName(last.file.path)] = last.file.chunks
    /\ \E r \in Namespace(last.user) :
           /\ r.metadata.source # PathName(last.file.path)
           /\ r.id \in IdsOf(ingestFile(last.file))

\* The records of a namespace that a user's own uploads are made of.
OwnRecords(st, u) == {r \in NamespaceOf(st, u) : r.document = TextOf(u)}

\* C2: for distinct users, no chunk ingested under one is returned by a
\* retrieve, listSources or count of the other, and a call of one user leaves
\* the other's namespace unchanged, also when both ingest the same file name.
C2_NamespacesIsolated ==
    [][\A u \in Users :
          /\ last'.user # u => NamespaceOf(store', u) = NamespaceOf(store, u)
          /\ NamespaceOf(store', u) = OwnRecords(store', u)
          /\ (last'.user = u /\ last'.op = "retrieve" /\ last'.raised = "none")
                => \A i \in 1..Len(last'.result) : last'.result[i].document = TextOf(u)
          /\ (last'.user = u /\ last'.op = "listSources")
                => \A i \in 1..Len(last'.result) : latest'[u][last'.result[i]] # <<>>
          /\ (last'.user = u /\ last'.op = "count")
                => last'.result = Cardinality(OwnRecords(store', u))]_vars

\* Both users hold chunks of "a.txt", one user holds "b.txt" and the other
\* does not, and the one without it has just listed its sources.
C2_Witness ==
    /\ last.op = "listSources" /\ last.user = "u1" /\ last.result = <<"a.txt">>
    /\ OfSource(Namespace("u1"), "a.txt") # {}
    /\ OfSource(Namespace("u2"), "a.txt") # {}
    /\ OfSource(Namespace("u2"), "b.txt") # {}

\* C3: after any sequence of successful ingests into one namespace, for every
\* source file name the namespace holds exactly the chunks of the most
\* recent ingest of that name: none stale, none duplicated, none missing.
C3_LatestGenerationOnly ==
    \A u \in Users : \A p \in Paths :
        OfSource(Namespace(u), PathName(p))
            = ingestFile([path |-> p, chunks |-> latest[u][PathName(p)]])

\* C4: an ingest that fails for a file already present in the namespace
\* leaves all the old chunks of that file in the namespace.
C4_FailedIngestKeepsOld ==
    [][(last'.op = "ingest" /\ last'.raised # "none")
       => LET name == PathName(last'.file.path)
          IN  OfSource(NamespaceOf(store', last'.user), name)
                  = OfSource(NamespaceOf(store, last'.user), name)]_vars

ReadOps == {"retrieve", "listSources", "count"}

\* C5: a retrieve, listSources or count that runs while a re-ingest of a file
\* is in progress in the same namespace finds that file's complete old chunk
\* set or its complete new chunk set, never neither.
C5_ReaderSeesOneGeneration ==
    [][\A w \in Workers :
          (/\ last'.op \in ReadOps /\ last' # last
           /\ ing[w].pc # "idle" /\ ing[w].old # {}
           /\ \A v \in Workers \ {w} : ing[v].pc = "idle"
           /\ last'.user = ing[w].user)
          => OfSource(NamespaceOf(store', ing[w].user), PathName(ing[w].file.path))
                 \in {ing[w].old, ingestFile(ing[w].file)}]_vars

\* C6: a retrieve with a non-empty query and limit k returns exactly k
\* results in non-decreasing distance when k <= count, and exactly count
\* results when k > count.
C6_ExactlyKResults ==
    (last.op = "retrieve" /\ last.raised = "none" /\ last.limit # NoLimit)
    => LET c == CollectionCount(Namespace(last.user))
           k == last.limit
       IN  /\ Len(last.result) = IF k <= c THEN k ELSE c
           /\ \A i \in 1..(Len(last.result) - 1) :
                  last.result[i].distance <= last.result[i + 1].distance

\* C7: a generate request for a user whose namespace has no chunks returns a
\* result with a null generatedText, an error message and no sources, and
\* makes no retrieval query and no call of the generative model.
C7_NoSamplesNoModelCall ==
    (last.op = "generate" /\ Namespace(last.user) = {})
    => /\ last.raised = "none"
       /\ last.result.generatedText = Null
       /\ last.result.error = NoSamplesError
       /\ last.result.sourcesUsed = {}
       /\ \A i \in 1..Len(last.calls) : last.calls[i].call \notin {"query", "model"}

\* A request with the prompt of the scenario, for a user whose uploads were
\* all deleted again.
C7_Witness ==
    /\ last.op = "generate" /\ last.prompt = "write an opening line"
    /\ collectionName(last.user) \in DOMAIN store
    /\ Namespace(last.user) = {}
    /\ last.result.generatedText = Null

\* C8: for a user with at least one chunk and a non-empty prompt, when both
\* model calls succeed the request returns the final reply stripped of
\* surrounding whitespace, the profile built for the request and the distinct
\* source names of the chunks retrieved for the prompt.
C8_ReturnsStrippedReply ==
    (/\ last.op = "generate" /\ Namespace(last.user) # {} /\ last.prompt # ""
     /\ last.profileReply.ok /\ last.finalReply.ok)
    => /\ last.raised = "none"
       /\ last.result.generatedText = Strip(last.finalReply.text)
       /\ last.result.styleProfile = Strip(last.profileReply.text)
       /\ last.result.sourcesUsed
              = sourcesOf(retrieve(Namespace(last.user), last.prompt, RAG_TOP_K))

\* The user instruction the spec composes from a prompt and a style hint.
UserInstruction(prompt, styleHint) ==
    IF styleHint = "" THEN "Task: " \o prompt
    ELSE "Task: " \o prompt \o "\nAdditional guidance: " \o styleHint

\* C9: the user instruction sent to the model is the prompt followed by the
\* style hint when the hint is non-empty, and the prompt only when it is
\* empty.
C9_HintAppended ==
    (/\ last.op = "generate" /\ Namespace(last.user) # {} /\ last.prompt # ""
     /\ last.profileReply.ok)
    => \E i \in 1..Len(last.calls) :
          /\ last.calls[i].call = "model"
          /\ last.calls[i].purpose = "generate"
          /\ last.calls[i].prompt = UserInstruction(last.prompt, last.styleHint)

\* C10: a generate request with an empty prompt is rejected with an error
\* before the namespace is counted, a retrieval is issued or a model is
\* called, whatever the namespace holds.
C10_EmptyPromptRejectedFirst ==
    (last.op = "generate" /\ last.prompt = "")
    => (last.raised = "ValueError" /\ last.calls = <<>>)

\* C11: deleteSource(filename) removes exactly the chunks of the namespace
\* whose source is filename and returns how many it removed (0, without an
\* error, when none matches); the chunks of all other sources stay as they
\* were.
C11_DeleteSourceExact ==
    [][(last'.op = "deleteSource")
       => LET before == NamespaceOf(store, last'.user)
              after == NamespaceOf(store', last'.user)
              matching == {r \in before : r.metadata.source = last'.filename}
          IN  /\ after = before \ matching
              /\ last'.result = Cardinality(matching)
              /\ last'.raised = "none"
              /\ \A name \in FileNames \ {last'.filename} :
                     OfSource(after, name) = OfSource(before, name)]_vars

\* A deleteSource that removed chunks while another source with ids of the
\* same stem stayed.
C11_Witness ==
    /\ last.op = "deleteSource" /\ last.filename = "a.txt" /\ last.result > 0
    /\ OfSource(Namespace(last.user), "a.md") # {}
    /\ OfSource(Namespace(last.user), "b.txt") # {}

\* C12: a retrieve with a non-empty query on a namespace with no chunks
\* returns the empty sequence for every limit, raises nothing and issues no
\* similarity query to the store.
C12_EmptyNamespaceEmptyResult ==
    (last.op = "retrieve" /\ last.query # "" /\ Namespace(last.user) = {})
    => /\ last.raised = "none"
       /\ last.result = <<>>
       /\ \A i \in 1..Len(last.calls) : last.calls[i].call # "query"

\* A retrieve with a limit above the default, on a namespace that was
\* emptied by deletes.
C12_Witness ==
    /\ last.op = "retrieve" /\ last.query = "q" /\ last.limit = MaxChunks + 1
    /\ Namespace(last.user) = {}
    /\ last.result = <<>>
    /\ last.calls = <<CountCall>>

\* C13: a retrieve with the empty query fails with an error before any count
\* or similarity query on the store, whatever the limit and the number of
\* chunks in the namespace.
C13_EmptyQueryRejectedFirst ==
    (last.op = "retrieve" /\ last.query = "")
    => (last.raised = "ValueError" /\ last.calls = <<>>)

\* An empty query with an explicit limit on a namespace that holds chunks.
C13_Witness ==
    /\ last.op = "retrieve" /\ last.query = "" /\ last.limit = 1
    /\ last.raised = "ValueError"
    /\ CollectionCount(Namespace(last.user)) > 1

\* C14: every chunk chunkText returns has at most CHUNK_SIZE characters,
\* also for a text that holds none of the separators.
C14_ChunksWithinSize ==
    (last.op = "chunkText")
    => \A i \in 1..Len(last.chunks) : TextLen(last.chunks[i]) <= CHUNK_SIZE

\* C15: ingestForUser calls that overlap on one namespace and one file name
\* exclude each other, so that once all of them have returned the namespace
\* is what some serial order of the calls leaves: the file's chunks are
\* exactly those of one of the ingested versions (the one ingested last),
\* or none when the last call failed.
C15_ConcurrentIngestsSerial ==
    (\A w \in Workers : ing[w].pc = "idle")
    => \E f \in ConcFiles : Namespace("u1") = ingestFile(f)

\* The posts to the generative model among the calls of a request, by purpose.
ModelCalls(calls) ==
    LET posts == SelectSeq(calls, LAMBDA c : c.call = "model")
    IN  [i \in 1..Len(posts) |-> posts[i].purpose]

\* The texts of the aspect queries among the calls of a request.
AspectQueries(calls) ==
    LET asked == SelectSeq(calls, LAMBDA c :
                     c.call = "query" /\ \E k \in 1..Len(Aspects) : c.text = Aspects[k])
    IN  [i \in 1..Len(asked) |-> asked[i].text]

\* The position of the first post to the model (past the end when none).
FirstModelCall(calls) ==
    IF \E i \in 1..Len(calls) : calls[i].call = "model"
    THEN CHOOSE i \in 1..Len(calls) :
             /\ calls[i].call = "model"
             /\ \A j \in 1..(i - 1) : calls[j].call # "model"
    ELSE Len(calls) + 1

\* C16: a generateInUserVoice request for a user with at least one chunk
\* posts to the model at most twice, the profile post before the generation
\* post; the four aspect queries are issued in their declared order before
\* the profile post; and after a post that fails no further post is made and
\* the request fails.
C16_ModelCallsOrderedNoRetry ==
    (last.op = "generate" /\ Namespace(last.user) # {})
    => LET posts == ModelCalls(last.calls)
           first == FirstModelCall(last.calls)
       IN  /\ posts \in {<<>>, <<"profile">>, <<"profile", "generate">>}
           /\ posts # <<>>
              => /\ AspectQueries(SubSeq(last.calls, 1, first - 1)) = Aspects
                 /\ AspectQueries(last.calls) = Aspects
           /\ (posts # <<>> /\ ~last.profileReply.ok)
              => (posts = <<"profile">> /\ last.raised # "none")
           /\ (Len(posts) = 2 /\ ~last.finalReply.ok) => last.raised # "none"

\* A request whose profile post succeeded and whose generation post failed.
C16_Witness ==
    /\ last.op = "generate" /\ Namespace(last.user) # {}
    /\ last.profileReply.ok /\ ~last.finalReply.ok
    /\ ModelCalls(last.calls) = <<"profile", "generate">>
    /\ last.raised = "UpstreamError"

\* The documents the retriever returns for aspect k, in rank order.
AspectDocuments(u, k) == Documents(retrieve(Namespace(u), Aspects[k], AspectLimit))

\* C17: buildStyleProfile returns the sentinel "No writing samples available
\* yet." without a post to the model exactly when every aspect retrieval
\* returns no sample; otherwise it posts to the model exactly once, with at
\* most SampleCap samples: those of the aspects in declared order, each in
\* rank order, duplicates kept.
C17_SentinelIffNoSamples ==
    (last.op = "buildStyleProfile")
    => LET all == AspectDocuments(last.user, 1) \o AspectDocuments(last.user, 2)
                  \o AspectDocuments(last.user, 3) \o AspectDocuments(last.user, 4)
           posts == SelectSeq(last.calls, LAMBDA c : c.call = "model")
           sentinel == /\ last.raised = "none"
                       /\ last.profile = NoSamplesProfile
                       /\ posts = <<>>
       IN  /\ sentinel <=> (all = <<>>)
           /\ all # <<>>
              => /\ Len(posts) = 1
                 /\ Len(posts[1].samples) <= SampleCap
                 /\ posts[1].samples
                        = SubSeq(all, 1, IF Len(all) < SampleCap THEN Len(all) ELSE SampleCap)

\* A profile built over a namespace of two chunks: eight samples, the same
\* documents again and again, the second aspect ranking them the other way.
C17_Witness ==
    /\ last.op = "buildStyleProfile" /\ last.raised = "none"
    /\ Cardinality(Namespace(last.user)) = 2
    /\ \E i \in 1..Len(last.calls) :
           /\ last.calls[i].call = "model"
           /\ last.calls[i].samples = <<"yy", "x", "x", "yy", "yy", "x", "yy", "x">>

\* The sentinel, returned for a namespace without chunks.
C17_WitnessSentinel ==
    /\ last.op = "buildStyleProfile" /\ Namespace(last.user) = {}
    /\ last.profile = NoSamplesProfile

\* C18: a successful ingestForUser of file F leaves the chunks (id, text and
\* metadata) of every other source name of the namespace unchanged, also of
\* a name with the stem of F and another extension; every chunk of the
\* namespace carries one source name, and no two chunks share an id.
C18_IngestKeepsOtherSources ==
    [][(last'.op = "ingest" /\ last'.raised = "none")
       => LET before == NamespaceOf(store, last'.user)
              after == NamespaceOf(store', last'.user)
          IN  /\ \A name \in FileNames \ {PathName(last'.file.path)} :
                     OfSource(after, name) = OfSource(before, name)
              /\ \A r \in after : r.metadata.source \in FileNames
              /\ \A r, q \in after : r.id = q.id => r = q]_vars

\* A successful ingest of a file whose chunk ids are all held by a source of
\* the same stem and another extension, which keeps them.
C18_Witness ==
    /\ last.op = "ingest" /\ last.raised = "none" /\ ~last.again
    /\ PathName(last.file.path) = "a.md"
    /\ OfSource(Namespace(last.user), "a.md") = {}
    /\ IdsOf(ingestFile(last.file)) \subseteq IdsOf(OfSource(Namespace(last.user), "a.txt"))
    /\ OfSource(Namespace(last.user), "b.txt") # {}

\* C19: an ingestForUser call rejected by validation (unsupported extension,
\* or no chunk in the file) raises before any store operation: the store is
\* as before, the namespace is not created by the call, and the chunks
\* ingested earlier under the file's name are still there.
C19_RejectedIngestTouchesNothing ==
    [][(last'.op = "ingest" /\ last'.raised = "ValueError")
       => /\ store' = store
          /\ DOMAIN store' = DOMAIN store
          /\ OfSource(NamespaceOf(store', last'.user), PathName(last'.file.path))
                 = OfSource(Namespace(last'.user), PathName(last'.file.path))]_vars

\* An empty version of a file rejected while the namespace holds the chunks
\* of the version ingested before.
C19_Witness ==
    /\ last.op = "ingest" /\ last.raised = "ValueError"
    /\ last.file.chunks = <<>> /\ PathName(last.file.path) = "a.txt"
    /\ Cardinality(OfSource(Namespace(last.user), "a.txt")) = MaxChunks

\* A file of an unsupported type rejected before the namespace exists.
C19_WitnessUnsupported ==
    /\ last.op = "ingest" /\ last.raised = "ValueError"
    /\ PathSuffix(last.file.path) = ".exe" /\ last.file.chunks # <<>>
    /\ store = <<>>

====
